---- MODULE Spec2Model ----
(***************************************************************************)
(* Model of pipelines/llmguard_filter_pipeline.py: the Open WebUI filter   *)
(* pipeline that rejects prompt injections and confidential content.       *)
(*                                                                         *)
(* Text is a sequence of characters; a character is a one-token string.    *)
(* "I_DOT" stands for U+0130 (capital I with dot above) and "DOT_ABOVE"    *)
(* for U+0307 (combining dot above): U+0130 is the one code point whose    *)
(* str.lower() is two code points long.                                    *)
(* Risk scores are counted in thousandths (0.8 is 800).                    *)
(***************************************************************************)
EXTENDS Integers, Sequences, FiniteSets, TLC

VARIABLES pi_model, bs_model, classifier, startup, body, log

vars == <<pi_model, bs_model, classifier, startup, body, log>>

----------------------------------------------------------------------------
(* Bounds of the model. *)

\* longest run of filler characters put before or after a forbidden string
MaxPad == 21

\* most inlet calls the host makes with the one body object
MaxCalls == 2

----------------------------------------------------------------------------
(* Program constants. *)

\* forbidden_strings, the module-level list
forbidden_strings ==
    << <<"S", "t", "a", "r", "t", "u", "p", "N", "a", "t", "i", "o", "n", " ",
         "C", "o", "n", "f", "i", "d", "e", "n", "t", "i", "a", "l">> >>

\* the literal 0.8 of `risk_score > 0.8` and of threshold=0.8, in thousandths
RISK_LIMIT == 800

\* the literal 20 of `index - 20` and `index + len(forbidden) + 20`
CONTEXT_CHARS == 20

\* "Prompt injection detected with risk score: "
InjectionPrefix ==
    <<"P", "r", "o", "m", "p", "t", " ", "i", "n", "j", "e", "c", "t", "i",
      "o", "n", " ", "d", "e", "t", "e", "c", "t", "e", "d", " ", "w", "i",
      "t", "h", " ", "r", "i", "s", "k", " ", "s", "c", "o", "r", "e", ":",
      " ">>

\* "Confidential information detected:\n"
ConfidentialHeader ==
    <<"C", "o", "n", "f", "i", "d", "e", "n", "t", "i", "a", "l", " ", "i",
      "n", "f", "o", "r", "m", "a", "t", "i", "o", "n", " ", "d", "e", "t",
      "e", "c", "t", "e", "d", ":", "\n">>

----------------------------------------------------------------------------
(* Python string operations. *)

UpperLetters ==
    <<"A", "B", "C", "D", "E", "F", "G", "H", "I", "J", "K", "L", "M",
      "N", "O", "P", "Q", "R", "S", "T", "U", "V", "W", "X", "Y", "Z">>

LowerLetters ==
    <<"a", "b", "c", "d", "e", "f", "g", "h", "i", "j", "k", "l", "m",
      "n", "o", "p", "q", "r", "s", "t", "u", "v", "w", "x", "y", "z">>

\* str.lower() of one character: a text, since U+0130 lowers to two
LowerChar(c) ==
    IF c = "I_DOT" THEN <<"i", "DOT_ABOVE">>
    ELSE IF \E k \in 1..26 : UpperLetters[k] = c
         THEN <<LowerLetters[CHOOSE k \in 1..26 : UpperLetters[k] = c]>>
         ELSE <<c>>

RECURSIVE Lower(_)
\* str.lower(): the characters lowered one by one, in order
Lower(s) ==
    IF s = <<>> THEN <<>>
    ELSE IF Len(s) = 1 THEN LowerChar(s[1])
    ELSE LET half == Len(s) \div 2
         IN  Lower(SubSeq(s, 1, half)) \o Lower(SubSeq(s, half + 1, Len(s)))

\* needle occurs in hay at the 0-based index i
OccursAt(hay, needle, i) ==
    /\ i >= 0
    /\ i + Len(needle) <= Len(hay)
    /\ SubSeq(hay, i + 1, i + Len(needle)) = needle

\* `needle in hay`
Contains(hay, needle) ==
    \E i \in 0..Len(hay) : OccursAt(hay, needle, i)

\* hay.find(needle): the lowest index of an occurrence, -1 when there is none
Find(hay, needle) ==
    LET at == {i \in 0..Len(hay) : OccursAt(hay, needle, i)}
    IN  IF at = {} THEN -1 ELSE CHOOSE i \in at : \A j \in at : i <= j

Max(a, b) == IF a >= b THEN a ELSE b

Min(a, b) == IF a <= b THEN a ELSE b

\* s[start:end] for start, end >= 0
Slice(s, start, end) ==
    IF start >= Min(end, Len(s)) THEN <<>>
    ELSE SubSeq(s, start + 1, Min(end, Len(s)))

RECURSIVE Join(_, _)
\* sep.join(parts)
Join(sep, parts) ==
    IF parts = <<>> THEN <<>>
    ELSE IF Len(parts) = 1 THEN parts[1]
    ELSE parts[1] \o sep \o Join(sep, Tail(parts))

Digits == <<"0", "1", "2", "3", "4", "5", "6", "7", "8", "9">>

\* Format2f cutting the third decimal off instead of rounding
Format2f_Truncated(score) ==
    LET cents == score \div 10
    IN  <<Digits[(cents \div 100) + 1], ".",
          Digits[((cents \div 10) % 10) + 1], Digits[(cents % 10) + 1]>>

\* "{:.2f}".format(score) for a score in thousandths, 0 <= score <= 1000.
\* The scores of the model have no last digit 5, so no rounding tie occurs.
Format2f(score) ==
    LET cents == (score + 5) \div 10
    IN  <<Digits[(cents \div 100) + 1], ".",
          Digits[((cents \div 10) % 10) + 1], Digits[(cents % 10) + 1]>>

----------------------------------------------------------------------------
(* Python values. *)

\* None
None == [tag |-> "None"]

\* a list object
List(items) == [tag |-> "list", items |-> items]

----------------------------------------------------------------------------
(* The two llm_guard scanners, as on_startup configures them. *)

\* PromptInjection(threshold=0.8, match_type=FULL) over the loaded classifier
PromptInjection(weights) ==
    [tag |-> "PromptInjection", threshold |-> RISK_LIMIT,
     match_type |-> "FULL", weights |-> weights]

\* BanSubstrings(substrings=forbidden_strings, match_type=STR,
\*               case_sensitive=False, redact=False, contains_all=False)
BanSubstrings ==
    [tag |-> "BanSubstrings", substrings |-> forbidden_strings,
     match_type |-> "STR", case_sensitive |-> FALSE, redact |-> FALSE,
     contains_all |-> FALSE]

\* self.pi_model.scan(text): the classifier is opaque, a fixed function of
\* the scanned text alone; its weights give the score of each class of text
PiScan(model, text) ==
    [sanitized |-> text,
     risk_score |-> model.weights[(Len(text) % Len(model.weights)) + 1]]

\* self.bs_model.scan(text) under the configuration above: invalid when any
\* of the substrings occurs in the text, both lowered
BsScan(model, text) ==
    LET hit(s) == IF model.case_sensitive THEN Contains(text, s)
                  ELSE Contains(Lower(text), Lower(s))
        any == \E k \in 1..Len(model.substrings) : hit(model.substrings[k])
        all == \A k \in 1..Len(model.substrings) : hit(model.substrings[k])
    IN  [sanitized |-> text,
         is_valid |-> IF model.contains_all THEN ~all ELSE ~any]

----------------------------------------------------------------------------
(* inlet, step by step. *)

\* NormalizedFiles without the replacement of None
NormalizedFiles_Kept(files) == files

\* body["metadata"]["files"] after `if ... is None: ... = []`
NormalizedFiles(files) ==
    IF files.tag = "None" THEN List(<<>>) ELSE files

\* the value one file entry contributes to files_contents
FileContent(file) ==
    IF /\ "file" \in DOMAIN file
       /\ "data" \in DOMAIN file.file
       /\ "content" \in DOMAIN file.file.data
    THEN file.file.data.content
    ELSE <<>>

\* files_contents, the list comprehension over body["metadata"]["files"]
FilesContents(files) ==
    [k \in 1..Len(files.items) |-> FileContent(files.items[k])]

\* FullContent leaving the file contents out
FullContent_MessageOnly(user_message, files_contents) ==
    user_message \o <<" ">>

\* full_content = user_message + " " + " ".join(files_contents)
FullContent(user_message, files_contents) ==
    user_message \o <<" ">> \o Join(<<" ">>, files_contents)

\* the dict appended to matched_strings for one forbidden string
Match(forbidden, full_content) ==
    LET index == Find(Lower(full_content), Lower(forbidden))
        start == Max(0, index - CONTEXT_CHARS)
        end   == Min(Len(full_content),
                     index + Len(forbidden) + CONTEXT_CHARS)
        context == Slice(full_content, start, end)
    IN  [forbidden_string |-> forbidden,
         context |-> <<".", ".", ".">> \o context \o <<".", ".", ".">>]

\* IsMatched without the lowering
IsMatched_CaseSensitive(forbidden, full_content) ==
    Contains(full_content, forbidden)

\* `forbidden.lower() in full_content.lower()`
IsMatched(forbidden, full_content) ==
    Contains(Lower(full_content), Lower(forbidden))

RECURSIVE MatchedStrings(_, _)
\* matched_strings after the loop over the forbidden list
MatchedStrings(forbidden, full_content) ==
    IF forbidden = <<>> THEN <<>>
    ELSE (IF IsMatched(Head(forbidden), full_content)
          THEN <<Match(Head(forbidden), full_content)>>
          ELSE <<>>) \o MatchedStrings(Tail(forbidden), full_content)

RECURSIVE ErrorMessage(_)
\* what the loop over matched_strings appends to error_message
ErrorMessage(matched_strings) ==
    IF matched_strings = <<>> THEN <<>>
    ELSE <<"\n", "-", " ", "F", "o", "u", "n", "d", " ", "'">>
         \o Head(matched_strings).forbidden_string
         \o <<"'", " ", "i", "n", " ", "c", "o", "n", "t", "e", "x", "t", ":",
              "\n", " ", " ">>
         \o Head(matched_strings).context
         \o ErrorMessage(Tail(matched_strings))

\* the state of one inlet call when it returns or raises: error is "" on a
\* return, scans lists the scanner calls made, in order, with their argument
Outcome(error, message, scans, risk_score, matched_strings) ==
    [error |-> error, message |-> message, scans |-> scans,
     risk_score |-> risk_score, matched_strings |-> matched_strings]

\* InjectionCheck rejecting a score of 0.8 too
InjectionCheck_AtLeast(pi, user_message) ==
    IF pi.tag = "None"
    THEN Outcome("AttributeError", <<"NoneType has no attribute scan">>,
                 <<>>, -1, <<>>)
    ELSE LET scan == PiScan(pi, user_message)
             scans == << [scanner |-> "pi_model", text |-> user_message] >>
         IN  IF scan.risk_score >= RISK_LIMIT
             THEN Outcome("Exception",
                          InjectionPrefix \o Format2f(scan.risk_score),
                          scans, scan.risk_score, <<>>)
             ELSE Outcome("", <<>>, scans, scan.risk_score, <<>>)

\* the injection check: the scan of the message and the test of its score;
\* calling scan on None raises AttributeError
InjectionCheck(pi, user_message) ==
    IF pi.tag = "None"
    THEN Outcome("AttributeError", <<"NoneType has no attribute scan">>,
                 <<>>, -1, <<>>)
    ELSE LET scan == PiScan(pi, user_message)
             scans == << [scanner |-> "pi_model", text |-> user_message] >>
         IN  IF scan.risk_score > RISK_LIMIT
             THEN Outcome("Exception",
                          InjectionPrefix \o Format2f(scan.risk_score),
                          scans, scan.risk_score, <<>>)
             ELSE Outcome("", <<>>, scans, scan.risk_score, <<>>)

\* the confidentiality check: the scan of full_content and, when the scanner
\* reports it invalid, the search for the strings that matched
ConfidentialityCheck(bs, full_content) ==
    IF bs.tag = "None"
    THEN Outcome("AttributeError", <<"NoneType has no attribute scan">>,
                 <<>>, -1, <<>>)
    ELSE LET scan == BsScan(bs, full_content)
             scans == << [scanner |-> "bs_model", text |-> full_content] >>
             matched_strings == MatchedStrings(forbidden_strings, full_content)
         IN  IF ~scan.is_valid
             THEN Outcome("Exception",
                          ConfidentialHeader \o ErrorMessage(matched_strings),
                          scans, -1, matched_strings)
             ELSE Outcome("", <<>>, scans, -1, <<>>)

\* Checks with the confidentiality check run first
Checks_ConfidentialityFirst(pi, bs, user_message, files_contents) ==
    LET first == ConfidentialityCheck(
                     bs, FullContent(user_message, files_contents))
        second == InjectionCheck(pi, user_message)
    IN  IF first.error # "" THEN first
        ELSE [second EXCEPT !.scans = first.scans \o second.scans]

\* Checks skipping a scanner that has not been built
Checks_SkipMissingScanner(pi, bs, user_message, files_contents) ==
    LET none == Outcome("", <<>>, <<>>, -1, <<>>)
        first == IF pi.tag = "None" THEN none
                 ELSE InjectionCheck(pi, user_message)
        second == IF bs.tag = "None" THEN none
                  ELSE ConfidentialityCheck(
                           bs, FullContent(user_message, files_contents))
    IN  IF first.error # "" THEN first
        ELSE [second EXCEPT !.scans = first.scans \o second.scans,
                            !.risk_score = first.risk_score]

\* the two checks in the order of the code: the second runs only when the
\* first did not raise
Checks(pi, bs, user_message, files_contents) ==
    LET first == InjectionCheck(pi, user_message)
        second == ConfidentialityCheck(
                      bs, FullContent(user_message, files_contents))
    IN  IF first.error # "" THEN first
        ELSE [second EXCEPT !.scans = first.scans \o second.scans,
                            !.risk_score = first.risk_score]

\* BodyAfter writing the full content back as the last message
BodyAfter_FoldsFiles(b) ==
    IF b.messages = <<>> \/ "content" \notin DOMAIN b.messages[Len(b.messages)]
    THEN b
    ELSE LET files == NormalizedFiles(b.metadata.files)
         IN  [b EXCEPT !.metadata.files = files,
                       !.messages[Len(b.messages)].content =
                           FullContent(@, FilesContents(files))]

\* body after the call: the dict is changed in place, whatever comes next
BodyAfter(b) ==
    IF b.messages = <<>> \/ "content" \notin DOMAIN b.messages[Len(b.messages)]
    THEN b
    ELSE [b EXCEPT !.metadata.files = NormalizedFiles(b.metadata.files)]

\* inlet(body): the outcome of the call
Inlet(pi, bs, b) ==
    IF b.messages = <<>>
    THEN Outcome("IndexError", <<"list index out of range">>, <<>>, -1, <<>>)
    ELSE IF "content" \notin DOMAIN b.messages[Len(b.messages)]
    THEN Outcome("KeyError", <<"content">>, <<>>, -1, <<>>)
    ELSE LET user_message == b.messages[Len(b.messages)].content
             files == BodyAfter(b).metadata.files
         IN  IF files.tag = "None"
             THEN Outcome("TypeError", <<"NoneType is not iterable">>,
                          <<>>, -1, <<>>)
             ELSE Checks(pi, bs, user_message, FilesContents(files))

----------------------------------------------------------------------------
(* The request bodies and the classifiers the model ranges over. *)

\* n times the character c
Filler(n, c) == [k \in 1..n |-> c]

\* the filler lengths: none, one, and those around the context width
PadLens == {0, 1} \cup {n \in 0..MaxPad : n >= CONTEXT_CHARS - 1}

\* "What is up?"
Benign == <<"W", "h", "a", "t", " ", "i", "s", " ", "u", "p", "?">>

\* "tell me about StartupNation"
LeftPart ==
    <<"t", "e", "l", "l", " ", "m", "e", " ", "a", "b", "o", "u", "t", " ",
      "S", "t", "a", "r", "t", "u", "p", "N", "a", "t", "i", "o", "n">>

\* "Confidential roadmap"
RightPart ==
    <<"C", "o", "n", "f", "i", "d", "e", "n", "t", "i", "a", "l", " ", "r",
      "o", "a", "d", "m", "a", "p">>

\* the spellings of a forbidden string that occur in the texts
Spellings == {forbidden_strings[1], Lower(forbidden_strings[1])}

\* a forbidden string between two runs of filler
Padded ==
    {Filler(a, c) \o v \o Filler(b, "y") :
        a \in PadLens, b \in PadLens, c \in {"x", "I_DOT"}, v \in Spellings}

\* the message contents
MsgTexts == {Benign, LeftPart} \cup Padded

\* the message contents paired with every list of files
FewMsgTexts ==
    {Benign, LeftPart, <<"x">> \o forbidden_strings[1],
     <<"I_DOT">> \o Lower(forbidden_strings[1])}

\* the file contents
FileTexts ==
    {<<"n", "o", "t", "e", "s">>, RightPart, forbidden_strings[1],
     Filler(MaxPad, "x") \o Lower(forbidden_strings[1])}

\* the file entries: three that lack a level of file.data.content, and the
\* well-formed ones
FileEntries ==
    {[type |-> "file"],
     [type |-> "file", file |-> [id |-> "f"]],
     [type |-> "file", file |-> [id |-> "f", data |-> [meta |-> "m"]]]}
    \cup {[type |-> "file", file |-> [id |-> "f", data |-> [content |-> t]]] :
            t \in FileTexts}

\* the values of metadata.files
FilesValues ==
    {None, List(<<>>)}
    \cup {List(<<e>>) : e \in FileEntries}
    \cup {List(<<e1, e2>>) :
            e1 \in FileEntries,
            e2 \in {e \in FileEntries :
                      \/ "file" \notin DOMAIN e
                      \/ /\ "data" \in DOMAIN e.file
                         /\ "content" \in DOMAIN e.file.data
                         /\ Len(e.file.data.content) > 5}}

Message(t) == [role |-> "user", content |-> t]

Body(messages, files) == [messages |-> messages, metadata |-> [files |-> files]]

\* the request bodies
Bodies ==
    {Body(<< Message(t) >>, None) : t \in MsgTexts}
    \cup {Body(<< Message(t) >>, f) : t \in FewMsgTexts, f \in FilesValues}
    \cup {Body(<< Message(forbidden_strings[1]), Message(t) >>, None) :
            t \in FewMsgTexts}
    \cup {Body(<<>>, f) : f \in {None, List(<<>>)}}
    \cup {Body(<< Message(Benign), [role |-> "user"] >>, f) :
            f \in {None, List(<<>>)}}

\* the risk scores a classifier gives, in thousandths
Scores == {50, 800, 806}

\* the classifiers PromptInjection may load: the score of the texts of even
\* and of odd length
Classifiers == [1..2 -> Scores]

----------------------------------------------------------------------------
(* The pipeline object and its host. *)

\* Pipeline.__init__, and the body and the classifier of this run; startup
\* is what the host has seen of on_startup: not called, raised every time, or
\* completed at least once
Init ==
    /\ pi_model = None
    /\ bs_model = None
    /\ classifier \in Classifiers
    /\ body \in Bodies
    /\ log = <<>>
    /\ startup = "not called"

\* on_startup: builds the two scanners. PromptInjection loads the classifier
\* and raises when it is not available, which leaves both attributes as they
\* were; BanSubstrings only stores its arguments.
OnStartup ==
    /\ \E loaded \in BOOLEAN :
          /\ pi_model' = IF loaded THEN PromptInjection(classifier)
                         ELSE pi_model
          /\ bs_model' = IF loaded THEN BanSubstrings ELSE bs_model
          /\ startup' = IF loaded \/ startup = "completed" THEN "completed"
                        ELSE "raised"
    /\ UNCHANGED <<classifier, body, log>>

\* on_shutdown: prints only
OnShutdown ==
    UNCHANGED vars

\* on_valves_updated: does nothing
OnValvesUpdated ==
    UNCHANGED vars

\* inlet(body): the host passes the body object of the request; log keeps,
\* for every call, its outcome and the body, the scanners and the startup
\* status it was entered with
InletCall ==
    /\ Len(log) < MaxCalls
    /\ log' = Append(log, [out |-> Inlet(pi_model, bs_model, body),
                           arg |-> body, pi |-> pi_model, bs |-> bs_model,
                           startup |-> startup])
    /\ body' = BodyAfter(body)
    /\ UNCHANGED <<pi_model, bs_model, classifier, startup>>

Next == OnStartup \/ OnShutdown \/ OnValvesUpdated \/ InletCall

Spec == Init /\ [][Next]_vars

----------------------------------------------------------------------------
(* What the claims speak of, stated from the body a call was entered with. *)

\* the last message of a body
LastMessage(b) == b.messages[Len(b.messages)]

\* the body has a last message with a content
HasContent(b) == b.messages # <<>> /\ "content" \in DOMAIN LastMessage(b)

\* the text a file entry holds at file.data.content, empty when it has none
EntryText(e) ==
    IF "file" \notin DOMAIN e THEN <<>>
    ELSE IF "data" \notin DOMAIN e.file THEN <<>>
    ELSE IF "content" \notin DOMAIN e.file.data THEN <<>>
    ELSE e.file.data.content

\* the file entries of a body, none when metadata.files is null
Entries(b) ==
    IF b.metadata.files.tag = "None" THEN <<>> ELSE b.metadata.files.items

\* fullContent: the last message content, a space, the file texts
SpecFullContent(b) ==
    LastMessage(b).content \o <<" ">>
        \o Join(<<" ">>, [k \in 1..Len(Entries(b)) |-> EntryText(Entries(b)[k])])

\* f occurs in text at the 0-based index i, the case of letters set aside
OccursIgnoringCase(text, f, i) ==
    /\ i + Len(f) <= Len(text)
    /\ \A k \in 1..Len(f) : LowerChar(text[i + k]) = LowerChar(f[k])

\* text contains f case-insensitively
HasForbidden(text, f) ==
    \E i \in 0..Len(text) : OccursIgnoringCase(text, f, i)

\* the positions in the forbidden list of the strings text contains
ForbiddenIn(text) ==
    {k \in 1..Len(forbidden_strings) : HasForbidden(text, forbidden_strings[k])}

\* the score the loaded classifier gives the last message content
MessageScore(b) ==
    classifier[(Len(LastMessage(b).content) % Len(classifier)) + 1]

\* the call was made with both scanners built
Initialized(e) ==
    e.pi.tag = "PromptInjection" /\ e.bs.tag = "BanSubstrings"

\* text begins with prefix
StartsWith(text, prefix) ==
    Len(text) >= Len(prefix) /\ SubSeq(text, 1, Len(prefix)) = prefix

\* the call ended in the prompt-injection rejection
InjectionRejected(e) ==
    e.out.error = "Exception" /\ StartsWith(e.out.message, InjectionPrefix)

\* the call ended in the confidential-content rejection
ConfidentialRejected(e) ==
    e.out.error = "Exception" /\ StartsWith(e.out.message, ConfidentialHeader)

\* the body object after the n-th call
After(n) == IF n < Len(log) THEN log[n + 1].arg ELSE body

\* the scanners a call invoked, in order
Scanners(e) == [k \in 1..Len(e.out.scans) |-> e.out.scans[k].scanner]

----------------------------------------------------------------------------
(* The claims. *)

\* C1: a call whose last message scores at most 0.8 and whose full content
\* holds no forbidden string returns, and leaves the body as it was but for
\* metadata.files = null, which has become the empty list.
C1_PassThrough ==
    \A n \in 1..Len(log) :
        LET e == log[n]
        IN  (/\ HasContent(e.arg)
             /\ e.pi.tag = "PromptInjection"
             /\ MessageScore(e.arg) <= RISK_LIMIT
             /\ ForbiddenIn(SpecFullContent(e.arg)) = {})
            => /\ e.out.error = ""
               /\ After(n).messages = e.arg.messages
               /\ After(n) =
                    [e.arg EXCEPT !.metadata.files =
                        IF @.tag = "None" THEN List(<<>>) ELSE @]

\* a call passed a body with files = null through and made it the empty list
C1_Witness ==
    \E n \in 1..Len(log) :
        /\ log[n].out.error = ""
        /\ log[n].arg.metadata.files = None
        /\ After(n).metadata.files = List(<<>>)
        /\ MessageScore(log[n].arg) = RISK_LIMIT

\* C2: a call ends in the prompt-injection rejection exactly when the
\* scanner's score of the last message is above 0.8, and the message is then
\* the prefix followed by the score rounded to two decimals.
C2_InjectionRejection ==
    \A n \in 1..Len(log) :
        LET e == log[n]
            scored == HasContent(e.arg) /\ e.pi.tag = "PromptInjection"
        IN  /\ InjectionRejected(e)
                <=> (scored /\ MessageScore(e.arg) > RISK_LIMIT)
            /\ InjectionRejected(e) =>
                 \E c \in 0..100 :
                    /\ 10 * c - 5 < MessageScore(e.arg)
                    /\ MessageScore(e.arg) < 10 * c + 5
                    /\ e.out.message = InjectionPrefix
                         \o <<Digits[(c \div 100) + 1], ".",
                              Digits[((c \div 10) % 10) + 1],
                              Digits[(c % 10) + 1]>>

\* a message scoring 0.806 was rejected as an injection
C2_Witness ==
    \E n \in 1..Len(log) :
        /\ InjectionRejected(log[n])
        /\ MessageScore(log[n].arg) > RISK_LIMIT
        /\ MessageScore(log[n].arg) % 10 > 5

\* C3: the confidentiality scan never runs before the injection scan, it does
\* not run at all when the score is above 0.8, and a body failing both checks
\* gets the prompt-injection rejection only.
C3_InjectionFirst ==
    \A n \in 1..Len(log) :
        LET e == log[n]
        IN  /\ \A k \in 1..Len(e.out.scans) :
                  e.out.scans[k].scanner = "bs_model"
                      => k = 2 /\ e.out.scans[1].scanner = "pi_model"
            /\ (/\ HasContent(e.arg)
                /\ e.pi.tag = "PromptInjection"
                /\ MessageScore(e.arg) > RISK_LIMIT)
               => /\ Scanners(e) = <<"pi_model">>
                  /\ InjectionRejected(e)
                  /\ ~ConfidentialRejected(e)

\* a body that fails both checks was handled with both scanners built
C3_Witness ==
    \E n \in 1..Len(log) :
        /\ Initialized(log[n])
        /\ HasContent(log[n].arg)
        /\ MessageScore(log[n].arg) > RISK_LIMIT
        /\ ForbiddenIn(SpecFullContent(log[n].arg)) # {}
        /\ InjectionRejected(log[n])

\* "Found '"
Found == <<"F", "o", "u", "n", "d", " ", "'">>

\* "Found '<string>' in context:\n  ...", the start of the entry of f
EntryStart(f) ==
    Found \o f \o <<"'", " ", "i", "n", " ", "c", "o", "n", "t", "e", "x", "t",
                   ":", "\n", " ", " ", ".", ".", ".">>

\* the indexes at which needle occurs in text
Occurrences(text, needle) ==
    {i \in 0..Len(text) : OccursAt(text, needle, i)}

\* the entry of f in message begins at index p: what follows its start, up to
\* the next entry or the end of the message, is a piece of full and "..."
IsEntry(message, f, p, full) ==
    LET later == {q \in Occurrences(message, Found) : q > p}
        stop == IF later = {} THEN Len(message)
                ELSE (CHOOSE q \in later : \A r \in later : q <= r) - 3
        from == p + Len(EntryStart(f))
    IN  /\ OccursAt(message, EntryStart(f), p)
        /\ stop - 3 >= from
        /\ Slice(message, stop - 3, stop) = <<".", ".", ".">>
        /\ Contains(full, Slice(message, from, stop - 3))

\* C4: a call that passes the injection check and whose full content holds
\* forbidden strings ends in the confidential-content rejection, and the
\* message has one entry "Found '<string>' in context:\n  ...<context>..."
\* for each forbidden string the content holds, in the order of the list,
\* and none for the others.
C4_ConfidentialRejection ==
    \A n \in 1..Len(log) :
        LET e == log[n]
            full == SpecFullContent(e.arg)
            held == ForbiddenIn(full)
            message == e.out.message
            at(k) == Find(message, EntryStart(forbidden_strings[k]))
        IN  (/\ HasContent(e.arg)
             /\ Initialized(e)
             /\ MessageScore(e.arg) <= RISK_LIMIT
             /\ held # {})
            => /\ ConfidentialRejected(e)
               /\ Cardinality(Occurrences(message, Found)) = Cardinality(held)
               /\ \A k \in 1..Len(forbidden_strings) :
                     IF k \in held
                     THEN IsEntry(message, forbidden_strings[k], at(k), full)
                     ELSE at(k) = -1
               /\ \A j \in held : \A k \in held : j < k => at(j) < at(k)

\* a content holding the forbidden string in lower case only was rejected
C4_Witness ==
    \E n \in 1..Len(log) :
        /\ ConfidentialRejected(log[n])
        /\ ~Contains(SpecFullContent(log[n].arg), forbidden_strings[1])
        /\ ForbiddenIn(SpecFullContent(log[n].arg)) = {1}

\* the entry lacks a level of file.data.content
LacksContent(e) ==
    \/ "file" \notin DOMAIN e
    \/ "data" \notin DOMAIN e.file
    \/ "content" \notin DOMAIN e.file.data

\* C5: files = null has become the empty list before the file contents are
\* read, an entry that lacks a level of file.data.content counts as the empty
\* text and makes no call fail, and entries that all lack it reject nothing.
C5_FilesNormalized ==
    \A n \in 1..Len(log) :
        LET e == log[n]
        IN  HasContent(e.arg)
            => /\ e.arg.metadata.files = None
                    => After(n).metadata.files = List(<<>>)
               /\ e.out.error \notin {"TypeError", "KeyError", "IndexError"}
               /\ \A k \in 1..Len(e.out.scans) :
                     e.out.scans[k].scanner = "bs_model"
                        => e.out.scans[k].text = SpecFullContent(e.arg)
               /\ (/\ Initialized(e)
                   /\ \A k \in 1..Len(Entries(e.arg)) :
                         LacksContent(Entries(e.arg)[k])
                   /\ MessageScore(e.arg) <= RISK_LIMIT
                   /\ ForbiddenIn(LastMessage(e.arg).content) = {})
                  => e.out.error = ""

\* a body whose two file entries lack file.data.content was passed through
C5_Witness ==
    \E n \in 1..Len(log) :
        /\ log[n].out.error = ""
        /\ Len(Entries(log[n].arg)) = 2
        /\ \A k \in 1..2 : LacksContent(Entries(log[n].arg)[k])

\* C6: a call with no message, or whose last message has no content, fails
\* with MissingDataError or MalformedRequest, before any scanner runs.
C6_ExplicitError ==
    \A n \in 1..Len(log) :
        ~HasContent(log[n].arg)
            => /\ log[n].out.error \in {"MissingDataError", "MalformedRequest"}
               /\ log[n].out.scans = <<>>

\* C7: no call returns the body unless on_startup has completed before it.
C7_NoPassBeforeStartup ==
    \A n \in 1..Len(log) :
        log[n].out.error = "" => log[n].startup = "completed"

\* a call made after on_startup raised was refused, and one made after it
\* completed returned
C7_Witness ==
    /\ Len(log) >= 2
    /\ log[1].startup = "raised"
    /\ log[1].out.error = "AttributeError"
    /\ log[2].startup = "completed"
    /\ log[2].out.error = ""

\* C8: two calls in succession with the same body object and the same
\* scanners end alike: both return, or both raise the same error.
C8_SameDecisionTwice ==
    \A n \in 1..(Len(log) - 1) :
        (log[n].pi = log[n + 1].pi /\ log[n].bs = log[n + 1].bs)
            => /\ log[n + 1].out.error = log[n].out.error
               /\ log[n + 1].out.message = log[n].out.message

\* a body with files = null was passed twice, the second time normalized
C8_Witness ==
    /\ Len(log) >= 2
    /\ Initialized(log[1])
    /\ log[1].arg.metadata.files = None
    /\ log[2].arg.metadata.files = List(<<>>)
    /\ Len(log[2].out.scans) = 2

\* C9: the injection scanner is given the last message content alone, the
\* substring scanner the full content, and a forbidden string that only a
\* file holds gets the confidential-content rejection.
C9_ScannerInputs ==
    \A n \in 1..Len(log) :
        LET e == log[n]
        IN  /\ \A k \in 1..Len(e.out.scans) :
                  e.out.scans[k].text =
                      IF e.out.scans[k].scanner = "pi_model"
                      THEN LastMessage(e.arg).content
                      ELSE SpecFullContent(e.arg)
            /\ (/\ HasContent(e.arg)
                /\ Initialized(e)
                /\ MessageScore(e.arg) <= RISK_LIMIT
                /\ ForbiddenIn(LastMessage(e.arg).content) = {}
                /\ \E k \in 1..Len(Entries(e.arg)) :
                      ForbiddenIn(EntryText(Entries(e.arg)[k])) # {})
               => ConfidentialRejected(e)

\* a forbidden string held by a file only was rejected
C9_Witness ==
    \E n \in 1..Len(log) :
        /\ ConfidentialRejected(log[n])
        /\ ForbiddenIn(LastMessage(log[n].arg).content) = {}
        /\ \E k \in 1..Len(Entries(log[n].arg)) :
              ForbiddenIn(EntryText(Entries(log[n].arg)[k])) # {}

\* C10: the context reported for a matched string is the slice of the full
\* content from max(0, i - 20) to min(len, i + len(forbidden) + 20), i the
\* index of the first case-insensitive occurrence of the string in the full
\* content: it holds that whole occurrence, at most 20 characters before it
\* and at most 20 after it.
C10_ContextWindow ==
    \A n \in 1..Len(log) :
        \A k \in 1..Len(log[n].out.matched_strings) :
            LET m == log[n].out.matched_strings[k]
                f == m.forbidden_string
                full == SpecFullContent(log[n].arg)
                context == SubSeq(m.context, 4, Len(m.context) - 3)
                found == {i \in 0..Len(full) : OccursIgnoringCase(full, f, i)}
                first == CHOOSE i \in found : \A j \in found : i <= j
            IN  /\ found # {}
                /\ context = Slice(full, Max(0, first - CONTEXT_CHARS),
                                   Min(Len(full),
                                       first + Len(f) + CONTEXT_CHARS))
                /\ \E p \in 0..CONTEXT_CHARS :
                      /\ OccursIgnoringCase(context, f, p)
                      /\ Len(context) - (p + Len(f)) <= CONTEXT_CHARS

====
